---- MODULE Spec2Model ----
(***************************************************************************)
(* Model of src/app.py (mosconi-render): the /render handler with its      *)
(* validation, the retrying downloader download_bytes, and the image       *)
(* transforms trim_white, resize_to_height and composite_horizontal.       *)
(*                                                                         *)
(* Four specifications share the module:                                   *)
(*   SpecRender     one POST /render request, stepped at every blocking    *)
(*                  call (requests.get, time.sleep) and at decode/compose  *)
(*   SpecTrim       trim_white applied twice to a bounded RGB raster       *)
(*   SpecResize     resize_to_height on bounded (width, height, target)    *)
(*   SpecComposite  composite_horizontal stepped through its two loops     *)
(* The variables of the specifications that are not running stay at their  *)
(* idle values.                                                            *)
(***************************************************************************)
EXTENDS Integers, Sequences, FiniteSets, TLC

VARIABLES
    \* ---- render(): one request ----
    req,        \* the request body: json kind, idcoti, urls
    pc,         \* position of the handler
    i,          \* loop index of "for i, url in enumerate(urls)" (0-based)
    attempt,    \* loop index of "for attempt in range(RETRIES + 1)"
    outcomes,   \* status (None: exception) of each requests.get of the running
                \* or failed download_bytes call
    sleeps,     \* time.sleep durations of that call
    fetched,    \* indices of urls for which requests.get has been called
    content,    \* r.content handed from download_bytes to open_image
    images,     \* the list "images" of render
    resp,       \* the response returned by render
    \* ---- trim_white ----
    tpc, timg, tbg, ttol, tpad, tbw, tbbox, tbox, tres, tbox2, tres2,
    \* ---- resize_to_height ----
    zpc, zimg, ztarget, zres,
    \* ---- composite_horizontal ----
    cpc, cimages, ctarget, cresized, cout, cx, ck

rvars == <<req, pc, i, attempt, outcomes, sleeps, fetched, content, images, resp>>
tvars == <<tpc, timg, tbg, ttol, tpad, tbw, tbbox, tbox, tres, tbox2, tres2>>
zvars == <<zpc, zimg, ztarget, zres>>
cvars == <<cpc, cimages, ctarget, cresized, cout, cx, ck>>
vars  == <<rvars, tvars, zvars, cvars>>

-----------------------------------------------------------------------------
(* Configuration (src/app.py lines 14-25), at the defaults of os.getenv.   *)

MAX_IMAGES == 6
RETRIES == 2
\* RETRY_BACKOFF is 0.6 s; durations are kept in milliseconds.
RETRY_BACKOFF == 600
MAX_SIDE == 2500
TRIM_BG == <<255, 255, 255>>
TRIM_TOLERANCE == 18
TRIM_PADDING == 2

\* Python's None where an integer is expected (last_status, index).
None == 0 - 1

(* Bounds of the model.                                                    *)
MaxExtra == 1       \* url lists run up to MAX_IMAGES + MaxExtra entries
MaxSide == 2        \* decoded images of a request are at most MaxSide wide/high
MaxTW == 3          \* trim_white rasters: width
MaxTH == 2          \* trim_white rasters: height
MaxPad == 2         \* trim_white padding
MaxDim == 15        \* resize_to_height: width, height, target
MaxImgs == 3        \* composite_horizontal: number of images
MaxCW == 2          \* composite_horizontal: image width
MaxCH == 3          \* composite_horizontal: image height

Max(a, b) == IF a >= b THEN a ELSE b
Min(a, b) == IF a <= b THEN a ELSE b

-----------------------------------------------------------------------------
(* Double-precision arithmetic of "int(w * (t / float(h)))"                *)
(* (resize_to_height lines 121-122, clamp_image lines 76-77).              *)
(* scale = fl(t/h) is the quotient rounded to 53 bits, w * scale is        *)
(* rounded again, int() truncates.  When h does not divide w*t the exact   *)
(* value is at least 1/h away from an integer and the truncation is the    *)
(* floor.  When h divides w*t, N = w*t/h, the result is N unless fl(t/h)   *)
(* was rounded down by so much that the product rounds to a double below   *)
(* N, and then it is N - 1.                                                *)

RECURSIVE Gcd(_, _)
Gcd(a, b) == IF b = 0 THEN a ELSE Gcd(b, a % b)

RECURSIVE IsPow2(_)
IsPow2(n) == IF n = 1 THEN TRUE ELSE IF n % 2 = 1 THEN FALSE ELSE IsPow2(n \div 2)

RECURSIVE Pow2(_)
Pow2(k) == IF k = 0 THEN 1 ELSE 2 * Pow2(k - 1)

\* 2^e mod h
RECURSIVE PowMod2(_, _)
PowMod2(e, h) == IF e = 0 THEN 1 % h ELSE (2 * PowMod2(e - 1, h)) % h

\* floor(log2(a / b)) for positive a, b
RECURSIVE FloorLog2Up(_, _, _)
FloorLog2Up(a, b, L) == IF a >= 2 * b * Pow2(L) THEN FloorLog2Up(a, b, L + 1) ELSE L
RECURSIVE FloorLog2Down(_, _, _)
FloorLog2Down(a, b, L) == IF a * Pow2(L) < b THEN FloorLog2Down(a, b, L + 1) ELSE 0 - L
FloorLog2(a, b) == IF a >= b THEN FloorLog2Up(a, b, 0) ELSE FloorLog2Down(a, b, 1)

\* TRUE iff fl(w * fl(t/h)) < N where N = w*t/h is an integer
ProductRoundsBelow(w, t, h) ==
    LET N  == (w * t) \div h
        L  == FloorLog2(t, h)
        r  == ((t % h) * PowMod2(52 - L, h)) % h      \* remainder of the 53-bit quotient
        P0 == FloorLog2(N, 1)
        P  == IF IsPow2(N) THEN P0 - 1 ELSE P0        \* spacing of doubles just below N
        k  == 1 + L - P
    IN  /\ ~IsPow2(h \div Gcd(t, h))                  \* t/h is not exact in binary
        /\ 2 * r < h                                  \* fl(t/h) rounded down
        /\ IF k >= 0 THEN w * r * Pow2(k) > h         \* by more than half a spacing
                     ELSE w * r > h * Pow2(0 - k)

\* round(w * t / h) in place of the truncation
RoundMulDiv(w, t, h) ==
    LET q == (w * t) \div h
        m == (w * t) % h
    IN  IF 2 * m > h \/ (2 * m = h /\ q % 2 = 1) THEN q + 1 ELSE q

\* int(w * (t / float(h)))
TruncMulDiv(w, t, h) ==
    LET q == (w * t) \div h
    IN  IF (w * t) % h # 0 THEN q
        ELSE IF ProductRoundsBelow(w, t, h) THEN q - 1 ELSE q

-----------------------------------------------------------------------------
(* render(): request values.                                               *)

\* An entry of "urls": a JSON value that is a string or not (isinstance(u, str)).
Str(chars) == [isStr |-> TRUE, text |-> chars]
NonStr == [isStr |-> FALSE, text |-> <<>>]

HttpPrefix == <<"h", "t", "t", "p", ":", "/", "/">>
HttpsPrefix == <<"h", "t", "t", "p", "s", ":", "/", "/">>

UrlEntries ==
    { Str(HttpPrefix \o <<"a">>),                 \* "http://a"
      Str(HttpsPrefix \o <<"b">>),                \* "https://b"
      Str(<<"f", "t", "p", ":", "/", "/", "c">>), \* "ftp://c"
      NonStr }                                    \* 42

\* str.startswith
startswith(s, prefix) ==
    /\ Len(s) >= Len(prefix)
    /\ SubSeq(s, 1, Len(prefix)) = prefix

\* line 169: isinstance(u, str) and (u.startswith("http://") or u.startswith("https://"))
IsHttpUrl(u) ==
    /\ u.isStr
    /\ (startswith(u.text, HttpPrefix) \/ startswith(u.text, HttpsPrefix))

UrlLists(n) == UNION { [1 .. m -> UrlEntries] : m \in 0 .. n }

\* The bodies of a POST with url lists of up to n entries: request.get_json
\* raises, returns a non-dict, or a dict whose "idcoti" and "urls" are
\* absent (None), a non-list, or a list.  Without "idcoti" the url lists
\* stop at one entry.
RequestsUpTo(n) ==
    { [json |-> "unparseable", idcoti |-> "None", urlsKind |-> "None", urls |-> <<>>],
      [json |-> "nondict", idcoti |-> "None", urlsKind |-> "None", urls |-> <<>>] }
    \cup { [json |-> "dict", idcoti |-> c, urlsKind |-> k, urls |-> <<>>] :
             c \in {"None", "q1"}, k \in {"None", "notlist"} }
    \cup { [json |-> "dict", idcoti |-> "None", urlsKind |-> "list", urls |-> u] :
             u \in UrlLists(1) }
    \cup { [json |-> "dict", idcoti |-> "q1", urlsKind |-> "list", urls |-> u] :
             u \in UrlLists(n) }

\* Lines 163-170 as seen by the caller: the request is one of the invalid
\* shapes (urls missing, not a list, empty, too long, or holding a bad entry).
RECURSIVE FirstBadUrl(_, _)
FirstBadUrl(urls, k) ==
    IF k > Len(urls) THEN None
    ELSE IF ~IsHttpUrl(urls[k]) THEN k - 1
    ELSE FirstBadUrl(urls, k + 1)

\* Responses.  kind: "none" while the handler runs, then "invalid" (_fail of
\* lines 156-170), "fetch_fail" (line 176), "decode_fail" (line 187),
\* "error500" (line 204) or "image" (line 196).
NoResp == [kind |-> "none", http |-> None, index |-> None, status |-> None, size |-> <<0, 0>>]
Fail(kind, index, status) ==
    [kind |-> kind, http |-> 400, index |-> index, status |-> status, size |-> <<0, 0>>]
Error500 == [kind |-> "error500", http |-> 500, index |-> None, status |-> None, size |-> <<0, 0>>]
SendFile(img) == [kind |-> "image", http |-> 200, index |-> None, status |-> None, size |-> <<img.w, img.h>>]

\* ValidateRequest without the loop of lines 168-170
ValidateRequestNoUrlCheck(r) ==
    IF r.json = "unparseable" THEN Error500
    ELSE IF r.json # "dict" THEN Fail("invalid", None, None)
    ELSE IF r.idcoti = "None" THEN Fail("invalid", None, None)
    ELSE IF r.urlsKind # "list" \/ Len(r.urls) = 0 THEN Fail("invalid", None, None)
    ELSE IF Len(r.urls) > MAX_IMAGES THEN Fail("invalid", None, None)
    ELSE NoResp

\* Lines 154-170: the validation of render, the response it returns or
\* NoResp when the request passes.
ValidateRequest(r) ==
    IF r.json = "unparseable" THEN Error500
    ELSE IF r.json # "dict" THEN Fail("invalid", None, None)
    ELSE IF r.idcoti = "None" THEN Fail("invalid", None, None)
    ELSE IF r.urlsKind # "list" \/ Len(r.urls) = 0 THEN Fail("invalid", None, None)
    ELSE IF Len(r.urls) > MAX_IMAGES THEN Fail("invalid", None, None)
    ELSE IF FirstBadUrl(r.urls, 1) # None THEN Fail("invalid", FirstBadUrl(r.urls, 1), None)
    ELSE NoResp

-----------------------------------------------------------------------------
(* Images as render and composite_horizontal see them: a size and the      *)
(* pixel content, kept as its provenance.  "id" names the decoded input    *)
(* the pixels come from, "lanczos" tells whether Image.resize resampled    *)
(* them.  A canvas cell holds <<id, dx, dy>>: pixel (dx, dy) of image id,  *)
(* or Background.                                                          *)

Image(w, h, id) == [w |-> w, h |-> h, id |-> id, lanczos |-> FALSE]

\* Image.resize((nw, nh), Image.LANCZOS)
resize(img, nw, nh) == [w |-> nw, h |-> nh, id |-> img.id, lanczos |-> TRUE]

\* resize_to_height without the pass-through of lines 119-120
resize_always(img, target_h) ==
    resize(img, Max(1, TruncMulDiv(img.w, target_h, img.h)), target_h)

\* lines 117-123
resize_to_height(img, target_h) ==
    IF img.h = target_h THEN img
    ELSE resize(img, Max(1, TruncMulDiv(img.w, target_h, img.h)), target_h)

\* lines 71-78 (images of the model stay below MAX_SIDE)
clamp_image(img) ==
    LET m == Max(img.w, img.h)
    IN  IF m <= MAX_SIDE THEN img
        ELSE resize(img, Max(1, TruncMulDiv(img.w, MAX_SIDE, m)),
                         Max(1, TruncMulDiv(img.h, MAX_SIDE, m)))

Background == <<0, 0, 0>>

\* Image.new("RGB", (w, h), background)
NewCanvas(w, h) ==
    [w |-> w, h |-> h, px |-> [c \in (0 .. w - 1) \X (0 .. h - 1) |-> Background]]

\* out.paste(im, (x, y)): the part of im that falls on the canvas overwrites it
paste(out, im, x, y) ==
    [out EXCEPT !.px =
        [c \in DOMAIN out.px |->
            IF /\ c[1] >= x /\ c[1] < x + im.w
               /\ c[2] >= y /\ c[2] < y + im.h
            THEN <<im.id, c[1] - x, c[2] - y>>
            ELSE out.px[c]]]

RECURSIVE MinOf(_)
MinOf(s) == IF Len(s) = 1 THEN s[1] ELSE Min(s[1], MinOf(Tail(s)))

RECURSIVE SumWidths(_)
SumWidths(s) == IF s = <<>> THEN 0 ELSE s[1].w + SumWidths(Tail(s))

\* line 130-131: target_h = min(heights)
TargetHeight(imgs) == MinOf([k \in 1 .. Len(imgs) |-> imgs[k].h])

\* line 133
Resized(imgs, target_h) == [k \in 1 .. Len(imgs) |-> resize_to_height(imgs[k], target_h)]

\* the cursor advanced one pixel short
AdvanceOverlap(x, im) == x + im.w - 1

\* line 141: x += im.size[0]
Advance(x, im) == x + im.w

-----------------------------------------------------------------------------
(* render(): the handler, lines 151-208.                                   *)

\* What one requests.get can do: raise, or answer with a status and a body.
\* A body is undecodable, or decodes (open_image, clamp_image, trim_white) to
\* an image of some size.
Statuses == {200, 404, 503}
Garbage == [ok |-> FALSE, w |-> 0, h |-> 0]
ImgSizes == { <<1, MaxSide>>, <<MaxSide, 1>> }
Contents == {Garbage} \cup { [ok |-> TRUE, w |-> z[1], h |-> z[2]] : z \in ImgSizes }
NetOutcomes ==
    { [exc |-> TRUE, status |-> None, content |-> Garbage] }
    \cup { [exc |-> FALSE, status |-> st, content |-> Garbage] : st \in Statuses }
    \cup { [exc |-> FALSE, status |-> 200, content |-> c] : c \in Contents }

\* line 49
IsErrorStatus(status) == status >= 400

\* the backoff computed from the 0-based attempt
BackoffDelayZeroBased(a) == RETRY_BACKOFF * a

\* line 57: the argument of time.sleep
BackoffDelay(a) == RETRY_BACKOFF * (a + 1)

IdleRender ==
    /\ req = [json |-> "nondict", idcoti |-> "None", urlsKind |-> "None", urls |-> <<>>]
    /\ pc = "idle" /\ i = 0 /\ attempt = 0 /\ outcomes = <<>> /\ sleeps = <<>>
    /\ fetched = {} /\ content = Garbage /\ images = <<>> /\ resp = NoResp

\* The server is up and waits for a POST /render.
InitRenderVars ==
    /\ req = [json |-> "nondict", idcoti |-> "None", urlsKind |-> "None", urls |-> <<>>]
    /\ pc = "accept" /\ i = 0 /\ attempt = 0 /\ outcomes = <<>> /\ sleeps = <<>>
    /\ fetched = {} /\ content = Garbage /\ images = <<>> /\ resp = NoResp

\* lines 151-152: Flask hands a request to render
RReceive ==
    /\ pc = "accept"
    /\ req' \in RequestsUpTo(MAX_IMAGES + MaxExtra)
    /\ pc' = "start"
    /\ UNCHANGED <<i, attempt, outcomes, sleeps, fetched, content, images, resp>>
    /\ UNCHANGED <<tvars, zvars, cvars>>

\* lines 154-172: parse and validate; a valid request enters the fetch loop
RValidate ==
    /\ pc = "start"
    /\ resp' = ValidateRequest(req)
    /\ pc' = IF resp'.kind = "none" THEN "get" ELSE "done"
    /\ UNCHANGED <<req, i, attempt, outcomes, sleeps, fetched, content, images>>
    /\ UNCHANGED <<tvars, zvars, cvars>>

\* RGet with an error status retried like an exception
RGetRetryStatus ==
    /\ pc = "get"
    /\ \E o \in NetOutcomes :
        /\ fetched' = fetched \cup {i}
        /\ IF o.exc \/ IsErrorStatus(o.status)
           THEN /\ outcomes' = Append(outcomes, o.status)
                /\ pc' = "sleep"
                /\ UNCHANGED <<content, resp, attempt, sleeps>>
           ELSE /\ content' = o.content
                /\ attempt' = 0 /\ outcomes' = <<>> /\ sleeps' = <<>>
                /\ pc' = "decode"
                /\ UNCHANGED resp
    /\ UNCHANGED <<req, i, images>>
    /\ UNCHANGED <<tvars, zvars, cvars>>

\* lines 46-57: one requests.get of download_bytes(urls[i]) and what follows
\* it without blocking: on an exception the handler goes to time.sleep; a
\* status >= 400 makes download_bytes return an error and render return the
\* failure of line 176; any other response makes download_bytes return
\* r.content to render (its locals are gone) for the decoder.
RGet ==
    /\ pc = "get"
    /\ \E o \in NetOutcomes :
        /\ fetched' = fetched \cup {i}
        /\ IF o.exc
           THEN /\ outcomes' = Append(outcomes, o.status)
                /\ pc' = "sleep"
                /\ UNCHANGED <<content, resp, attempt, sleeps>>
           ELSE IF IsErrorStatus(o.status)
           THEN /\ outcomes' = Append(outcomes, o.status)
                /\ resp' = Fail("fetch_fail", i, o.status)
                /\ pc' = "done"
                /\ UNCHANGED <<content, attempt, sleeps>>
           ELSE /\ content' = o.content
                /\ attempt' = 0 /\ outcomes' = <<>> /\ sleeps' = <<>>
                /\ pc' = "decode"
                /\ UNCHANGED resp
    /\ UNCHANGED <<req, i, images>>
    /\ UNCHANGED <<tvars, zvars, cvars>>

\* line 57 and the loop header of line 44: sleep, then the next attempt or,
\* when range(RETRIES + 1) is used up, the return of line 59 (last_status is
\* still None: every response returns at once) and the failure of line 176.
RSleep ==
    /\ pc = "sleep"
    /\ sleeps' = Append(sleeps, BackoffDelay(attempt))
    /\ IF attempt + 1 < RETRIES + 1
       THEN /\ attempt' = attempt + 1
            /\ pc' = "get"
            /\ UNCHANGED resp
       ELSE /\ resp' = Fail("fetch_fail", i, None)
            /\ pc' = "done"
            /\ UNCHANGED attempt
    /\ UNCHANGED <<req, i, outcomes, fetched, content, images>>
    /\ UNCHANGED <<tvars, zvars, cvars>>

\* RDecode with an undecodable input skipped instead of failing the request
RDecodeSkip ==
    /\ pc = "decode"
    /\ images' = IF content.ok
                 THEN Append(images, clamp_image(Image(content.w, content.h, i + 1)))
                 ELSE images
    /\ IF i + 1 < Len(req.urls)
       THEN /\ i' = i + 1
            /\ pc' = "get"
            /\ UNCHANGED resp
       ELSE IF images' = <<>>
       THEN /\ resp' = Fail("decode_fail", i, None)
            /\ pc' = "done"
            /\ UNCHANGED i
       ELSE /\ pc' = "composite"
            /\ UNCHANGED <<resp, i>>
    /\ UNCHANGED <<req, fetched, content, attempt, outcomes, sleeps>>
    /\ UNCHANGED <<tvars, zvars, cvars>>

\* lines 178-187: open_image, clamp_image and trim_white of the body; an
\* exception returns the failure of line 187, otherwise the image is
\* appended and the loop goes on to the next url or leaves for line 189.
RDecode ==
    /\ pc = "decode"
    /\ IF ~content.ok
       THEN /\ resp' = Fail("decode_fail", i, None)
            /\ pc' = "done"
            /\ UNCHANGED <<i, images>>
       ELSE /\ images' = Append(images, clamp_image(Image(content.w, content.h, i + 1)))
            /\ UNCHANGED resp
            /\ IF i + 1 < Len(req.urls)
               THEN /\ i' = i + 1
                    /\ pc' = "get"
               ELSE /\ pc' = "composite"
                    /\ UNCHANGED i
    /\ UNCHANGED <<req, fetched, content, attempt, outcomes, sleeps>>
    /\ UNCHANGED <<tvars, zvars, cvars>>

\* line 189: the call of composite_horizontal(images), which runs as
\* CNormalize and CPaste below
RCallComposite ==
    /\ pc = "composite"
    /\ cimages' = images
    /\ cpc' = "start"
    /\ pc' = "compositing"
    /\ UNCHANGED <<req, i, attempt, outcomes, sleeps, fetched, content, images, resp>>
    /\ UNCHANGED <<ctarget, cresized, cout, cx, ck>>
    /\ UNCHANGED <<tvars, zvars>>

\* lines 191-201: composite_horizontal has returned; the PNG is sent
RSendFile ==
    /\ pc = "compositing"
    /\ cpc = "done"
    /\ resp' = SendFile(cout)
    /\ pc' = "done"
    /\ UNCHANGED <<req, i, attempt, outcomes, sleeps, fetched, content, images>>
    /\ UNCHANGED <<tvars, zvars, cvars>>

-----------------------------------------------------------------------------
(* trim_white, lines 81-114, on RGB rasters: px maps <<x, y>> to <<r, g, b>>. *)

Raster(w, h, px) == [w |-> w, h |-> h, px |-> px]
Cells(w, h) == (0 .. w - 1) \X (0 .. h - 1)

\* Pixel colours of the rasters: Yellowish is 100 away from white in blue
\* only (grey level of the difference 11), Black is 255 away in each channel.
White == <<255, 255, 255>>
Yellowish == <<255, 255, 155>>
Black == <<0, 0, 0>>
Palette == {Yellowish, Black}
Backgrounds == {TRIM_BG, Black}
Tolerances == {0, TRIM_TOLERANCE}

Abs(a) == IF a >= 0 THEN a ELSE 0 - a

\* ImageChops.difference on one pixel: abs(a - b) per channel
difference(a, b) == <<Abs(a[1] - b[1]), Abs(a[2] - b[2]), Abs(a[3] - b[3])>>

\* the grey level taken as the plain mean of the channels
convert_mean(c) == (c[1] + c[2] + c[3]) \div 3

\* Image.convert("L") on one pixel: Pillow's ITU-R 601-2 luma,
\* (r * 19595 + g * 38470 + b * 7471 + 0x8000) >> 16
convert_L(c) == (c[1] * 19595 + c[2] * 38470 + c[3] * 7471 + 32768) \div 65536

\* line 99: the lambda of diff_gray.point
point(x, tolerance) == IF x > tolerance THEN 255 ELSE 0

\* lines 90-99: the binary image bw
BlackWhite(img, bg, tolerance) ==
    [c \in DOMAIN img.px |-> point(convert_L(difference(img.px[c], bg)), tolerance)]

\* Image.getbbox: the box of the non-zero cells, None (NoBBox) when there are none
NoBBox == <<0, 0, 0, 0>>
SetMin(S) == CHOOSE m \in S : \A n \in S : m <= n
SetMax(S) == CHOOSE m \in S : \A n \in S : m >= n
getbbox(bw) ==
    LET nz == { c \in DOMAIN bw : bw[c] # 0 }
        xs == { c[1] : c \in nz }
        ys == { c[2] : c \in nz }
    IN  IF nz = {} THEN NoBBox
        ELSE <<SetMin(xs), SetMin(ys), SetMax(xs) + 1, SetMax(ys) + 1>>

\* the right and bottom limits taken as the last index, not the size
PaddedBoxLastIndex(bbox, w, h, padding) ==
    << Max(0, bbox[1] - padding), Max(0, bbox[2] - padding),
       Min(w - 1, bbox[3] + padding), Min(h - 1, bbox[4] + padding) >>

\* lines 106-112: padding with limits
PaddedBox(bbox, w, h, padding) ==
    << Max(0, bbox[1] - padding), Max(0, bbox[2] - padding),
       Min(w, bbox[3] + padding), Min(h, bbox[4] + padding) >>

\* Image.crop((left, top, right, bottom)) for a box inside the image
crop(img, box) ==
    LET nw == Max(0, box[3] - box[1])
        nh == Max(0, box[4] - box[2])
    IN  Raster(nw, nh, [c \in Cells(nw, nh) |-> img.px[<<c[1] + box[1], c[2] + box[2]>>]])

\* lines 101-114: the box that is cropped, NoBBox when the image is returned as is
TrimBox(img, bg, tolerance, padding) ==
    LET bbox == getbbox(BlackWhite(img, bg, tolerance))
    IN  IF bbox = NoBBox THEN NoBBox ELSE PaddedBox(bbox, img.w, img.h, padding)

\* trim_white without the "if not bbox: return img" of lines 102-104
trim_white_nofallback(img, bg, tolerance, padding) ==
    crop(img, TrimBox(img, bg, tolerance, padding))

\* lines 81-114
trim_white(img, bg, tolerance, padding) ==
    LET box == TrimBox(img, bg, tolerance, padding)
    IN  IF box = NoBBox THEN img ELSE crop(img, box)

EmptyRaster == Raster(0, 0, [c \in Cells(0, 0) |-> Black])

RastersUpTo(mw, mh) ==
    UNION { { Raster(w, h, f) : f \in [Cells(w, h) -> Palette] } :
            w \in 1 .. mw, h \in 1 .. mh }

IdleTrim ==
    /\ tpc = "idle" /\ timg = EmptyRaster /\ tbg = TRIM_BG /\ ttol = TRIM_TOLERANCE
    /\ tpad = TRIM_PADDING /\ tbw = <<>> /\ tbbox = NoBBox /\ tbox = NoBBox
    /\ tres = EmptyRaster /\ tbox2 = NoBBox /\ tres2 = EmptyRaster

InitTrimVars ==
    /\ tpc = "start"
    /\ timg \in RastersUpTo(MaxTW, MaxTH)
    /\ tbg \in Backgrounds
    /\ ttol \in Tolerances
    /\ tpad \in 0 .. MaxPad
    /\ tbw = <<>> /\ tbbox = NoBBox /\ tbox = NoBBox
    /\ tres = EmptyRaster /\ tbox2 = NoBBox /\ tres2 = EmptyRaster

\* trim_white(timg, tbg, ttol, tpad); bw, bbox and the cropped box are kept
TrimFirst ==
    /\ tpc = "start"
    /\ tbw' = BlackWhite(timg, tbg, ttol)
    /\ tbbox' = getbbox(tbw')
    /\ tbox' = TrimBox(timg, tbg, ttol, tpad)
    /\ tres' = trim_white(timg, tbg, ttol, tpad)
    /\ tpc' = "once"
    /\ UNCHANGED <<timg, tbg, ttol, tpad, tbox2, tres2>>
    /\ UNCHANGED <<rvars, zvars, cvars>>

\* trim_white applied to the result, same parameters
TrimSecond ==
    /\ tpc = "once"
    /\ tbox2' = TrimBox(tres, tbg, ttol, tpad)
    /\ tres2' = trim_white(tres, tbg, ttol, tpad)
    /\ tpc' = "twice"
    /\ UNCHANGED <<timg, tbg, ttol, tpad, tbw, tbbox, tbox, tres>>
    /\ UNCHANGED <<rvars, zvars, cvars>>

NextTrim == TrimFirst \/ TrimSecond

-----------------------------------------------------------------------------
(* resize_to_height on its own, lines 117-123.                             *)

IdleResize == zpc = "idle" /\ zimg = Image(1, 1, 1) /\ ztarget = 1 /\ zres = Image(1, 1, 1)

InitResizeVars ==
    /\ zpc = "start"
    /\ \E w \in 1 .. MaxDim, h \in 1 .. MaxDim : zimg = Image(w, h, 1)
    /\ ztarget \in 1 .. MaxDim
    /\ zres = Image(1, 1, 1)

ZResize ==
    /\ zpc = "start"
    /\ zres' = resize_to_height(zimg, ztarget)
    /\ zpc' = "done"
    /\ UNCHANGED <<zimg, ztarget>>
    /\ UNCHANGED <<rvars, tvars, cvars>>

NextResize == ZResize

-----------------------------------------------------------------------------
(* composite_horizontal, lines 126-143, stepped through its paste loop.    *)
(* It runs on the list render hands it (RCallComposite) or, on its own, on *)
(* a list of bounded images.                                               *)

ImageListsUpTo(mn, mw, mh) ==
    UNION { { [k \in 1 .. n |-> Image(f[k][1], f[k][2], k)] :
              f \in [1 .. n -> (1 .. mw) \X (1 .. mh)] } : n \in 1 .. mn }

IdleComposite ==
    /\ cpc = "idle" /\ cimages = <<>> /\ ctarget = 0 /\ cresized = <<>>
    /\ cout = NewCanvas(0, 0) /\ cx = 0 /\ ck = 0

InitCompositeVars ==
    /\ cpc = "start"
    /\ cimages \in ImageListsUpTo(MaxImgs, MaxCW, MaxCH)
    /\ ctarget = 0 /\ cresized = <<>> /\ cout = NewCanvas(0, 0) /\ cx = 0 /\ ck = 0

\* lines 130-138: the common height, the resized list, the canvas, x = 0
CNormalize ==
    /\ cpc = "start"
    /\ ctarget' = TargetHeight(cimages)
    /\ cresized' = Resized(cimages, ctarget')
    /\ cout' = NewCanvas(SumWidths(cresized'), ctarget')
    /\ cx' = 0
    /\ ck' = 1
    /\ cpc' = "paste"
    /\ UNCHANGED cimages
    /\ UNCHANGED <<rvars, tvars, zvars>>

\* lines 139-143: one turn of the paste loop; after the last one, return out
CPaste ==
    /\ cpc = "paste"
    /\ cout' = paste(cout, cresized[ck], cx, 0)
    /\ cx' = Advance(cx, cresized[ck])
    /\ ck' = ck + 1
    /\ cpc' = IF ck = Len(cresized) THEN "done" ELSE "paste"
    /\ UNCHANGED <<cimages, ctarget, cresized>>
    /\ UNCHANGED <<rvars, tvars, zvars>>

NextComposite == CNormalize \/ CPaste

NextRender ==
    \/ RReceive \/ RValidate \/ RGet \/ RSleep \/ RDecode
    \/ RCallComposite \/ CNormalize \/ CPaste \/ RSendFile

-----------------------------------------------------------------------------
(* The specifications.                                                     *)

InitRender == InitRenderVars /\ IdleTrim /\ IdleResize /\ IdleComposite
InitTrim == IdleRender /\ InitTrimVars /\ IdleResize /\ IdleComposite
InitResize == IdleRender /\ IdleTrim /\ InitResizeVars /\ IdleComposite
InitComposite == IdleRender /\ IdleTrim /\ IdleResize /\ InitCompositeVars

SpecRender == InitRender /\ [][NextRender]_vars
\* A request that was received is handled to its return: no step of the
\* handler waits on anything but requests.get, bounded by timeout=TIMEOUT,
\* and time.sleep.
HandleRequest ==
    \/ RValidate \/ RGet \/ RSleep \/ RDecode
    \/ RCallComposite \/ CNormalize \/ CPaste \/ RSendFile
SpecRenderFair == SpecRender /\ WF_vars(HandleRequest)
SpecTrim == InitTrim /\ [][NextTrim]_vars
SpecResize == InitResize /\ [][NextResize]_vars
SpecComposite == InitComposite /\ [][NextComposite]_vars

Init == InitRender
Next == NextRender
Spec == SpecRender

-----------------------------------------------------------------------------
(* Properties of render and download_bytes (SpecRender, SpecRenderFair).   *)

\* An entry that is a string beginning with http:// or https://
ClaimGoodUrl(u) ==
    /\ u.isStr
    /\ \/ /\ Len(u.text) >= 7
          /\ [k \in 1 .. 7 |-> u.text[k]] = <<"h", "t", "t", "p", ":", "/", "/">>
       \/ /\ Len(u.text) >= 8
          /\ [k \in 1 .. 8 |-> u.text[k]] = <<"h", "t", "t", "p", "s", ":", "/", "/">>

\* The invalid requests: a parsed JSON body whose urls is missing (the body
\* is no object, or has no "urls"), not a list, empty, longer than
\* MAX_IMAGES, or holds a bad entry at some position
ClaimInvalid(r) ==
    /\ r.json \in {"dict", "nondict"}
    /\ \/ r.json = "nondict"
       \/ r.urlsKind # "list"
       \/ Len(r.urls) = 0
       \/ Len(r.urls) > MAX_IMAGES
       \/ \E k \in 1 .. Len(r.urls) : ~ClaimGoodUrl(r.urls[k])

\* C1: an invalid request (urls missing, not a list, empty, longer than
\* MAX_IMAGES, or with an entry that is not an http(s) string at any
\* position) is rejected with the 400 of the validation and requests.get is
\* never called for any of its urls, the valid ones before a bad one included.
C1_InvalidRejectedBeforeFetch ==
    (pc # "accept" /\ ClaimInvalid(req)) =>
        /\ fetched = {}
        /\ pc \in {"start", "done"}
        /\ pc = "done" => (resp.kind = "invalid" /\ resp.http = 400)

\* a rejected request whose first two urls are valid and whose third is not
C1_Witness ==
    /\ pc = "done"
    /\ resp.kind = "invalid"
    /\ fetched = {}
    /\ req.urlsKind = "list" /\ Len(req.urls) >= 3
    /\ ClaimGoodUrl(req.urls[1]) /\ ClaimGoodUrl(req.urls[2])
    /\ ~ClaimGoodUrl(req.urls[3])
    /\ resp.index = 2

\* C2: a failure of fetching or decoding returns one failure whose index is
\* the zero-based position of the first failing input (every input before
\* it was fetched and decoded), no image, and no url after it is fetched;
\* an image is returned only when every input was fetched and decoded.
C2_FirstFailureAborts ==
    /\ resp.kind \in {"fetch_fail", "decode_fail"} =>
          /\ pc = "done"
          /\ resp.http = 400
          /\ resp.index = i
          /\ Len(images) = resp.index
          /\ \A k \in 1 .. Len(images) : images[k].id = k
          /\ fetched = 0 .. resp.index
          /\ resp.size = <<0, 0>>
    /\ resp.kind = "image" =>
          /\ Len(images) = Len(req.urls)
          /\ \A k \in 1 .. Len(images) : images[k].id = k
          /\ fetched = 0 .. (Len(req.urls) - 1)
    /\ (pc \in {"composite", "compositing"} \/ resp.kind = "image") =>
          (content.ok /\ Len(images) = Len(req.urls))

\* the second of three inputs does not decode
C2_Witness ==
    /\ pc = "done"
    /\ resp.kind = "decode_fail"
    /\ resp.index = 1
    /\ Len(req.urls) = 3
    /\ fetched = {0, 1}

CountOf(s, v) == Cardinality({ k \in 1 .. Len(s) : s[k] = v })

\* C3 as stated: a url that answers 404 on every attempt is tried
\* RETRIES + 1 times before the failure, with status 404 at its index, is
\* reported.
C3_AsStated ==
    (/\ resp.kind = "fetch_fail"
     /\ outcomes # <<>>
     /\ \A k \in 1 .. Len(outcomes) : outcomes[k] = 404) =>
        /\ Len(outcomes) = RETRIES + 1
        /\ resp.status = 404
        /\ resp.index = i

\* C3: once an attempt for urls[i] is answered 404 the request has failed,
\* with status 404 at index i, and that attempt was the only one answered
\* 404: no retry follows it.  A url answering 404 every time is tried once.
C3_Http404FailsAtOnce ==
    (outcomes # <<>> /\ outcomes[Len(outcomes)] = 404) =>
        /\ pc = "done"
        /\ resp.kind = "fetch_fail"
        /\ resp.status = 404
        /\ resp.index = i
        /\ i \in fetched
        /\ CountOf(outcomes, 404) = 1
        /\ (\A k \in 1 .. Len(outcomes) : outcomes[k] = 404) => Len(outcomes) = 1

\* the second url answers 404 on its first attempt
C3_Witness ==
    /\ pc = "done"
    /\ resp.kind = "fetch_fail"
    /\ resp.status = 404
    /\ resp.index = 1
    /\ outcomes = <<404>>
    /\ sleeps = <<>>

\* what holds of the running download_bytes call in every state
C4_Bounded ==
    /\ attempt <= RETRIES
    /\ Len(outcomes) <= RETRIES + 1
    /\ Len(sleeps) = CountOf(outcomes, None) - (IF pc = "sleep" THEN 1 ELSE 0)
    /\ \A k \in 1 .. Len(sleeps) : sleeps[k] = RETRY_BACKOFF * k
    /\ (Len(sleeps) = RETRIES + 1) =>
          /\ pc = "done"
          /\ resp.kind = "fetch_fail"
          /\ resp.index = i
          /\ resp.status = None

Returned ==
    /\ pc = "done"
    /\ resp.kind \in {"image", "fetch_fail", "decode_fail", "invalid", "error500"}

-----------------------------------------------------------------------------
(* Properties of composite_horizontal (SpecComposite).                     *)

\* the x at which image k starts: the widths of the resized images before it
OffsetOf(k) == SumWidths(SubSeq(cresized, 1, k - 1))

\* the least of the input heights
IsMinHeight(m) ==
    /\ \E k \in 1 .. Len(cimages) : cimages[k].h = m
    /\ \A k \in 1 .. Len(cimages) : cimages[k].h >= m

\* C5: the images are pasted in input order at y = 0, the k-th starting at
\* the sum of the normalized widths before it: every canvas cell shows the
\* pixel of exactly the image whose column range holds it, no cell is left
\* as background, the output width is the sum of the widths and the output
\* height the common normalized height.
C5_PastedEdgeToEdge ==
    /\ cpc = "paste" => cx = OffsetOf(ck)
    /\ cpc = "done" =>
          /\ cout.w = SumWidths(cresized)
          /\ cout.h = ctarget
          /\ IsMinHeight(cout.h)
          /\ DOMAIN cout.px = (0 .. cout.w - 1) \X (0 .. cout.h - 1)
          /\ \A k \in 1 .. Len(cresized) :
                \A dx \in 0 .. cresized[k].w - 1 : \A y \in 0 .. cout.h - 1 :
                    cout.px[<<OffsetOf(k) + dx, y>>] = <<cresized[k].id, dx, y>>
          /\ \A c \in DOMAIN cout.px :
                /\ cout.px[c] # Background
                /\ Cardinality({ k \in 1 .. Len(cresized) :
                        c[1] >= OffsetOf(k) /\ c[1] < OffsetOf(k) + cresized[k].w }) = 1
          /\ \A k \in 1 .. Len(cresized) : cresized[k].id = k

\* three images composed, one of them resampled to the common height
C5_Witness ==
    /\ cpc = "done"
    /\ Len(cimages) >= 3
    /\ \E k \in 1 .. Len(cresized) : cresized[k].lanczos
    /\ \E k \in 1 .. Len(cresized) : cresized[k].w > 1
    /\ cout.w > Len(cimages)

\* C6: the normalization returns a list of the same length and order in
\* which every height is min(input heights), and an input already at that
\* height is returned as it is, width and pixels untouched.
C6_NormalizedToMinHeight ==
    cpc \in {"paste", "done"} =>
        /\ Len(cresized) = Len(cimages)
        /\ IsMinHeight(ctarget)
        /\ \A k \in 1 .. Len(cimages) :
              /\ cresized[k].id = cimages[k].id
              /\ cresized[k].h = ctarget
              /\ cresized[k].w >= 1
              /\ cimages[k].h = ctarget => cresized[k] = cimages[k]
              /\ cimages[k].h # ctarget => cresized[k].lanczos

\* one input already at the minimum height next to one that is taller
C6_Witness ==
    /\ cpc = "paste"
    /\ \E k \in 1 .. Len(cimages) : cresized[k] = cimages[k] /\ cimages[k].w > 1
    /\ \E k \in 1 .. Len(cimages) : cimages[k].h > ctarget /\ cresized[k].lanczos

-----------------------------------------------------------------------------
(* Properties of trim_white (SpecTrim).                                    *)

\* C7: trimming the result of trim_white again with the same bg, tolerance
\* and padding returns the same image; the second padded box is the full
\* extent of the trimmed image.
C7_TrimIdempotent ==
    tpc = "twice" =>
        /\ tres2 = tres
        /\ tbox # NoBBox => tbox2 = <<0, 0, tres.w, tres.h>>
        /\ tbox = NoBBox => tbox2 = NoBBox

\* a first trim that cut columns away while keeping a padding, then a second
C7_Witness ==
    /\ tpc = "twice"
    /\ tpad > 0
    /\ tbox # NoBBox
    /\ tres.w < timg.w
    /\ tres.w > tbbox[3] - tbbox[1]
    /\ tres2 = tres

\* C8: an image without any foreground pixel is returned as it is, and every
\* result of trim_white is at least 1 x 1.
C8_NeverEmpty ==
    /\ tpc \in {"once", "twice"} =>
          /\ (\A c \in DOMAIN tbw : tbw[c] = 0) => tres = timg
          /\ tres.w >= 1 /\ tres.h >= 1
          /\ DOMAIN tres.px = Cells(tres.w, tres.h)
    /\ tpc = "twice" => (tres2.w >= 1 /\ tres2.h >= 1)

\* an image of near-background pixels only, returned whole
C8_Witness ==
    /\ tpc = "once"
    /\ \A c \in DOMAIN tbw : tbw[c] = 0
    /\ \E c \in DOMAIN timg.px : timg.px[c] # tbg
    /\ timg.w > 1
    /\ tres = timg

EuclidSq(a, b) ==
    (a[1] - b[1]) * (a[1] - b[1]) + (a[2] - b[2]) * (a[2] - b[2]) + (a[3] - b[3]) * (a[3] - b[3])

\* the box is the smallest one around the cells of F: it holds them all and
\* each of its four sides touches one of them
SmallestBoxAround(box, F) ==
    IF F = {} THEN box = NoBBox
    ELSE /\ \A c \in F : c[1] >= box[1] /\ c[1] < box[3] /\ c[2] >= box[2] /\ c[2] < box[4]
         /\ \E c \in F : c[1] = box[1]
         /\ \E c \in F : c[1] = box[3] - 1
         /\ \E c \in F : c[2] = box[2]
         /\ \E c \in F : c[2] = box[4] - 1

\* C10 as stated: a pixel is foreground iff its Euclidean RGB distance to bg
\* exceeds tolerance, and the box is the smallest around those pixels.
C10_AsStated ==
    tpc \in {"once", "twice"} =>
        LET far == { c \in DOMAIN timg.px : EuclidSq(timg.px[c], tbg) > ttol * ttol }
        IN  /\ \A c \in DOMAIN timg.px : (tbw[c] # 0) <=> (c \in far)
            /\ SmallestBoxAround(tbbox, far)

\* 65536 times the grey level before rounding: the weights of Pillow's
\* RGB to L conversion on the per-channel absolute differences
WeightedDiff(a, b) ==
    19595 * Abs(a[1] - b[1]) + 38470 * Abs(a[2] - b[2]) + 7471 * Abs(a[3] - b[3])

\* C10: a pixel is foreground iff the grey level (luma, rounded) of its
\* per-channel absolute difference to bg exceeds tolerance; such a pixel is
\* also farther than tolerance from bg in Euclidean distance, not the other
\* way round; the box is the smallest around exactly the foreground pixels.
C10_LumaThreshold ==
    tpc \in {"once", "twice"} =>
        LET fg == { c \in DOMAIN timg.px :
                      WeightedDiff(timg.px[c], tbg) + 32768 >= 65536 * (ttol + 1) }
        IN  /\ DOMAIN tbw = DOMAIN timg.px
            /\ \A c \in DOMAIN timg.px : (tbw[c] # 0) <=> (c \in fg)
            /\ \A c \in fg : EuclidSq(timg.px[c], tbg) > ttol * ttol
            /\ SmallestBoxAround(tbbox, fg)

\* a pixel 100 away from white in blue only stays background at tolerance
\* 18 while a black pixel elsewhere gives a box smaller than the image
C10_Witness ==
    /\ tpc = "once"
    /\ tbg = White /\ ttol = TRIM_TOLERANCE
    /\ \E c \in DOMAIN timg.px : timg.px[c] = Yellowish /\ tbw[c] = 0
    /\ tbbox # NoBBox
    /\ tbbox[3] - tbbox[1] < timg.w

-----------------------------------------------------------------------------
(* Properties of resize_to_height (SpecResize).                            *)

\* round(a / b), halves to the even neighbour as Python's round does
RoundDiv(a, b) ==
    LET q == a \div b
        m == a % b
    IN  IF 2 * m > b \/ (2 * m = b /\ q % 2 = 1) THEN q + 1 ELSE q

\* C9 as stated: for height # target_height the result has height
\* target_height and width max(1, round(width * target_height / height)).
C9_AsStated ==
    (zpc = "done" /\ zimg.h # ztarget) =>
        /\ zres.h = ztarget
        /\ zres.w = Max(1, RoundDiv(zimg.w * ztarget, zimg.h))

\* C9: for height # target_height the result has height target_height and
\* width max(1, int(width * (target_height / float(height)))), a truncation:
\* max(1, floor(width * target_height / height)) when height does not divide
\* width * target_height, and otherwise the quotient N or, where the double
\* product falls just below N, max(1, N - 1).
C9_WidthTruncated ==
    (zpc = "done" /\ zimg.h # ztarget) =>
        LET p == zimg.w * ztarget
            N == p \div zimg.h
        IN  /\ zres.h = ztarget
            /\ zres.w >= 1
            /\ zres.lanczos
            /\ p % zimg.h # 0 => zres.w = Max(1, N)
            /\ p % zimg.h = 0 => zres.w \in {N, Max(1, N - 1)}

\* a width whose exact value has a fraction of one half or more
C9_Witness ==
    /\ zpc = "done"
    /\ zimg.h # ztarget
    /\ 2 * ((zimg.w * ztarget) % zimg.h) >= zimg.h
    /\ zres.w = (zimg.w * ztarget) \div zimg.h
    /\ zres.w >= 1
====
